---- MODULE Spec2Model ----
(***************************************************************************)
(* A model of node-fpgrowth: the FPNode / FPTree data structure            *)
(* (src/src/fpnode.ts, src/src/fptree.ts) and the recursive FPGrowth miner *)
(* with its single-path shortcut (src/unnamed/part_001, lines 99-264).     *)
(*                                                                         *)
(* Items are JavaScript numbers (non-negative integers here).  Maps keyed  *)
(* by JSON.stringify(item) are functions whose domain is a set of digit    *)
(* strings, a digit string being a sequence of digits.                     *)
(***************************************************************************)
EXTENDS Integers, Sequences, FiniteSets, TLC

\* JavaScript's null / undefined for node references and for the root's item.
null == 0

----------------------------------------------------------------------------
(* JSON.stringify, JSON.parse, String.prototype.localeCompare, Object.keys *)

RECURSIVE Stringify(_)
\* JSON.stringify of a non-negative integer: its decimal digits.
Stringify(n) ==
    IF n < 10 THEN <<n>> ELSE Stringify(n \div 10) \o <<n % 10>>

RECURSIVE JSONParse(_)
\* JSON.parse of a digit string.
JSONParse(s) ==
    IF Len(s) = 0 THEN 0
    ELSE 10 * JSONParse(SubSeq(s, 1, Len(s) - 1)) + s[Len(s)]

RECURSIVE localeCompare(_, _)
\* a.localeCompare(b) on digit strings: negative, zero or positive.
localeCompare(a, b) ==
    IF Len(a) = 0 /\ Len(b) = 0 THEN 0
    ELSE IF Len(a) = 0 THEN -1
    ELSE IF Len(b) = 0 THEN 1
    ELSE IF a[1] < b[1] THEN -1
    ELSE IF a[1] > b[1] THEN 1
    ELSE localeCompare(Tail(a), Tail(b))

\* An object used as a map, with no key.
EmptyMap == [k \in {} |-> 0]

\* map[key], undefined (null) when the key is absent.
Get(map, key) == IF key \in DOMAIN map THEN map[key] ELSE null

\* map[key] = val
Put(map, key, val) ==
    [k \in DOMAIN map \cup {key} |-> IF k = key THEN val ELSE map[k]]

RECURSIVE KeysAscending(_)
KeysAscending(keys) ==
    IF keys = {} THEN <<>>
    ELSE LET m == CHOOSE k \in keys :
                     \A o \in keys : JSONParse(k) <= JSONParse(o)
         IN  <<m>> \o KeysAscending(keys \ {m})

\* Object.keys(map): integer-like keys come in ascending numeric order.
ObjectKeys(map) == KeysAscending(DOMAIN map)

----------------------------------------------------------------------------
(* FPNode: a tree is a sequence of nodes, a node reference is an index,    *)
(* the root is node 1.                                                     *)

Root == 1

\* new FPNode(item, parent)
NewFPNode(item, parent) ==
    [item |-> item, parent |-> parent, support |-> 1,
     children |-> <<>>, nextSameItemNode |-> null]

RECURSIVE FindChild(_, _, _, _)
FindChild(nodes, children, item, i) ==
    IF i > Len(children) THEN null
    ELSE IF nodes[children[i]].item = item THEN children[i]
    ELSE FindChild(nodes, children, item, i + 1)

\* FPNode.getChild: the first child carrying the item, or undefined.
getChild(nodes, node, item) == FindChild(nodes, nodes[node].children, item, 1)

\* upsertChild giving a new child the support 1 of the FPNode constructor.
upsertChildOfSupportOne(nodes, node, item, support) ==
    LET child == FindChild(nodes, nodes[node].children, item, 1)
    IN  IF child = null
        THEN LET id == Len(nodes) + 1
                 grown == [nodes EXCEPT ![node].children = Append(@, id)]
             IN  [nodes |-> Append(grown, NewFPNode(item, node)),
                  child |-> id, created |-> TRUE]
        ELSE [nodes |-> [nodes EXCEPT ![child].support = @ + support],
              child |-> child, created |-> FALSE]

\* FPNode.upsertChild: the child carrying the item gets the support added, or
\* a new last child is created with that support; created tells whether
\* onNewChild is to be called.
upsertChild(nodes, node, item, support) ==
    LET child == getChild(nodes, node, item)
    IN  IF child = null
        THEN LET id == Len(nodes) + 1
                 fresh == [NewFPNode(item, node) EXCEPT !.support = support]
                 grown == [nodes EXCEPT ![node].children = Append(@, id)]
             IN  [nodes |-> Append(grown, fresh), child |-> id, created |-> TRUE]
        ELSE [nodes |-> [nodes EXCEPT ![child].support = @ + support],
              child |-> child, created |-> FALSE]

----------------------------------------------------------------------------
(* FPTree *)

\* new FPTree(supports, support): not built, a childless root, no header yet.
NewFPTree(supports, support) ==
    [isInit |-> FALSE,
     nodes |-> <<NewFPNode(null, null)>>,
     headers |-> <<>>,
     firstInserted |-> EmptyMap,
     lastInserted |-> EmptyMap,
     supports |-> supports,
     support |-> support]

\* FPTree._updateLastInserted
updateLastInserted(tree, key, child) ==
    LET last == Get(tree.lastInserted, key)
        linked == IF last # null
                  THEN [tree.nodes EXCEPT ![last].nextSameItemNode = child]
                  ELSE tree.nodes
    IN  [tree EXCEPT !.nodes = linked,
                     !.lastInserted = Put(tree.lastInserted, key, child)]

\* _updateFirstInserted without its test of the first node.
updateFirstInsertedAlways(tree, key, child) ==
    [tree EXCEPT !.firstInserted = Put(tree.firstInserted, key, child)]

\* FPTree._updateFirstInserted
updateFirstInserted(tree, key, child) ==
    IF Get(tree.firstInserted, key) = null
    THEN [tree EXCEPT !.firstInserted = Put(tree.firstInserted, key, child)]
    ELSE tree

RECURSIVE AddItemsFrom(_, _, _, _, _)
AddItemsFrom(tree, items, prefixSupport, current, i) ==
    IF i > Len(items) THEN tree
    ELSE LET up == upsertChild(tree.nodes, current, items[i], prefixSupport)
             t1 == [tree EXCEPT !.nodes = up.nodes]
             t2 == IF up.created
                   THEN updateFirstInserted(
                            updateLastInserted(t1, Stringify(items[i]), up.child),
                            Stringify(items[i]), up.child)
                   ELSE t1
         IN  AddItemsFrom(t2, items, prefixSupport, up.child, i + 1)

\* FPTree._addItems: inserts the items as one path below the root.
addItems(tree, items, prefixSupport) ==
    AddItemsFrom(tree, items, prefixSupport, Root, 1)

\* The comparator of fromTransactions / fromPrefixPaths: descending support,
\* ties by descending stringified item.
ItemCompare(supports, a, b) ==
    LET res == Get(supports, Stringify(b)) - Get(supports, Stringify(a))
    IN  IF res = 0 THEN localeCompare(Stringify(b), Stringify(a)) ELSE res

RECURSIVE InsertItem(_, _, _, _)
InsertItem(supports, sorted, x, i) ==
    IF i > Len(sorted) THEN Append(sorted, x)
    ELSE IF ItemCompare(supports, sorted[i], x) > 0
    THEN SubSeq(sorted, 1, i - 1) \o <<x>> \o SubSeq(sorted, i, Len(sorted))
    ELSE InsertItem(supports, sorted, x, i + 1)

RECURSIVE SortItems(_, _)
\* Array.prototype.sort with ItemCompare (a stable sort).
SortItems(supports, items) ==
    IF Len(items) = 0 THEN <<>>
    ELSE InsertItem(supports,
                    SortItems(supports, SubSeq(items, 1, Len(items) - 1)),
                    items[Len(items)], 1)

\* PruneAndSort without the pruning filter.
SortWithoutPruning(tree, items) ==
    SortItems(tree.supports,
              SelectSeq(items, LAMBDA item : Stringify(item) \in DOMAIN tree.supports))

\* The pruning and sorting of one transaction or one prefix path.
PruneAndSort(tree, items) ==
    LET keep(item) == /\ Stringify(item) \in DOMAIN tree.supports
                      /\ tree.supports[Stringify(item)] >= tree.support
    IN  SortItems(tree.supports, SelectSeq(items, keep))

RECURSIVE InsertKey(_, _, _, _)
InsertKey(supports, sorted, x, i) ==
    IF i > Len(sorted) THEN Append(sorted, x)
    ELSE IF Get(supports, sorted[i]) - Get(supports, x) > 0
    THEN SubSeq(sorted, 1, i - 1) \o <<x>> \o SubSeq(sorted, i, Len(sorted))
    ELSE InsertKey(supports, sorted, x, i + 1)

RECURSIVE SortKeys(_, _)
SortKeys(supports, keys) ==
    IF Len(keys) = 0 THEN <<>>
    ELSE InsertKey(supports,
                   SortKeys(supports, SubSeq(keys, 1, Len(keys) - 1)),
                   keys[Len(keys)], 1)

\* _getHeaderList reading the keys of the supports table.
getHeaderListOfSupports(tree) ==
    LET sorted == SortKeys(tree.supports, ObjectKeys(tree.supports))
    IN  [i \in 1..Len(sorted) |-> JSONParse(sorted[i])]

\* FPTree._getHeaderList: the keys of firstInserted, sorted by ascending
\* support (a stable sort of Object.keys), parsed back to items.
getHeaderList(tree) ==
    LET sorted == SortKeys(tree.supports, ObjectKeys(tree.firstInserted))
    IN  [i \in 1..Len(sorted) |-> JSONParse(sorted[i])]

\* The outcome of a builder: whether it threw 'Error building the FPTree', and
\* the tree as the call leaves it.
Built(tree) == [threw |-> FALSE, tree |-> tree]
BuildError(tree) == [threw |-> TRUE, tree |-> tree]

RECURSIVE AddTransactions(_, _, _)
AddTransactions(tree, transactions, i) ==
    IF i > Len(transactions) THEN tree
    ELSE AddTransactions(
             addItems(tree, PruneAndSort(tree, transactions[i]), 1),
             transactions, i + 1)

\* fromTransactions without its test of _isInit.
fromTransactionsUnguarded(tree, transactions) ==
    LET filled == AddTransactions(tree, transactions, 1)
    IN  Built([filled EXCEPT !.headers = getHeaderList(filled),
                             !.isInit = TRUE])

\* FPTree.fromTransactions: the outcome holds the tree as the call leaves it.
fromTransactions(tree, transactions) ==
    IF tree.isInit THEN BuildError(tree)
    ELSE LET filled == AddTransactions(tree, transactions, 1)
         IN  Built([filled EXCEPT !.headers = getHeaderList(filled),
                                  !.isInit = TRUE])

RECURSIVE AddPrefixPaths(_, _, _)
AddPrefixPaths(tree, prefixPaths, i) ==
    IF i > Len(prefixPaths) THEN tree
    ELSE AddPrefixPaths(
             addItems(tree, PruneAndSort(tree, prefixPaths[i].path),
                      prefixPaths[i].support),
             prefixPaths, i + 1)

\* FPTree.fromPrefixPaths: the outcome holds the tree as the call leaves it.
fromPrefixPaths(tree, prefixPaths) ==
    IF tree.isInit THEN BuildError(tree)
    ELSE LET filled == AddPrefixPaths(tree, prefixPaths, 1)
         IN  Built([filled EXCEPT !.headers = getHeaderList(filled),
                                  !.isInit = TRUE])

----------------------------------------------------------------------------
(* FPTree queries.  The outcome of a query is a record: threw tells whether *)
(* the call threw, isNull whether it returned null or undefined, value is   *)
(* what it returned otherwise.                                              *)

Return(v) == [threw |-> FALSE, isNull |-> FALSE, value |-> v]
ReturnNull == [threw |-> FALSE, isNull |-> TRUE, value |-> <<>>]
Throw == [threw |-> TRUE, isNull |-> FALSE, value |-> <<>>]

RECURSIVE getPrefixPathItemsFromRoot(_, _, _, _)
\* _getPrefixPath putting the items of the farther ancestors first.
getPrefixPathItemsFromRoot(nodes, node, count, acc) ==
    LET parent == nodes[node].parent
    IN  IF parent # null /\ nodes[parent].parent # null
        THEN LET key == Stringify(nodes[parent].item)
                 rest == getPrefixPathItemsFromRoot(
                             nodes, parent, count,
                             Put(acc, key, Get(acc, key) + count))
             IN  [path |-> rest.path \o <<nodes[parent].item>>, acc |-> rest.acc]
        ELSE [path |-> <<>>, acc |-> acc]

RECURSIVE getPrefixPathItems(_, _, _, _)
\* FPTree._getPrefixPath: the items of the node's ancestors below the root,
\* nearest first; acc is the table onPushingNewItem adds count to.
getPrefixPathItems(nodes, node, count, acc) ==
    LET parent == nodes[node].parent
    IN  IF parent # null /\ nodes[parent].parent # null
        THEN LET key == Stringify(nodes[parent].item)
                 rest == getPrefixPathItems(nodes, parent, count,
                                            Put(acc, key, Get(acc, key) + count))
             IN  [path |-> <<nodes[parent].item>> \o rest.path, acc |-> rest.acc]
        ELSE [path |-> <<>>, acc |-> acc]

\* FPTree.getPrefixPath
getPrefixPath(tree, node, acc) ==
    IF ~tree.isInit THEN [out |-> Throw, acc |-> acc]
    ELSE LET got == getPrefixPathItems(tree.nodes, node,
                                       tree.nodes[node].support, acc)
         IN  IF Len(got.path) = 0
             THEN [out |-> ReturnNull, acc |-> got.acc]
             ELSE [out |-> Return([support |-> tree.nodes[node].support,
                                   path |-> got.path]),
                   acc |-> got.acc]

RECURSIVE getPrefixPathsFrom(_, _, _, _, _)
\* FPTree._getPrefixPaths: follows the node-links from node.
getPrefixPathsFrom(tree, node, count, acc, prefixPaths) ==
    LET one == getPrefixPath(tree, node, acc)
        pushed == IF one.out.isNull THEN prefixPaths
                  ELSE Append(prefixPaths, one.out.value)
    IN  IF one.out.threw THEN [out |-> Throw, acc |-> acc]
        ELSE IF tree.nodes[node].nextSameItemNode = null
        THEN [out |-> Return(pushed), acc |-> one.acc]
        ELSE getPrefixPathsFrom(tree, tree.nodes[node].nextSameItemNode,
                                count, one.acc, pushed)

\* FPTree.getPrefixPaths
getPrefixPaths(tree, item) ==
    IF ~tree.isInit THEN Throw
    ELSE LET start == Get(tree.firstInserted, Stringify(item))
         IN  IF start = null THEN Return(<<>>)
             ELSE getPrefixPathsFrom(tree, start, tree.nodes[start].support,
                                     EmptyMap, <<>>).out

\* getConditionalFPTree without its test of the root's children.
getConditionalFPTreeUntested(tree, item) ==
    LET start == Get(tree.firstInserted, Stringify(item))
    IN  IF start = null THEN ReturnNull
        ELSE LET s == Get(tree.supports, Stringify(item))
                 got == getPrefixPathsFrom(tree, start, s, EmptyMap, <<>>)
             IN  IF got.out.threw THEN Throw
                 ELSE Return(fromPrefixPaths(NewFPTree(got.acc, tree.support),
                                             got.out.value).tree)

\* FPTree.getConditionalFPTree
getConditionalFPTree(tree, item) ==
    LET start == Get(tree.firstInserted, Stringify(item))
    IN  IF start = null THEN ReturnNull
        ELSE LET s == Get(tree.supports, Stringify(item))
                 got == getPrefixPathsFrom(tree, start, s, EmptyMap, <<>>)
                 ret == fromPrefixPaths(NewFPTree(got.acc, tree.support),
                                        got.out.value).tree
             IN  IF got.out.threw THEN Throw
                 ELSE IF Len(ret.nodes[Root].children) # 0 THEN Return(ret)
                 ELSE ReturnNull

RECURSIVE getSinglePathFrom(_, _, _)
\* FPTree._getSinglePath
getSinglePathFrom(nodes, node, currentPath) ==
    IF Len(nodes[node].children) = 0 THEN Return(currentPath)
    ELSE IF Len(nodes[node].children) > 1 THEN ReturnNull
    ELSE getSinglePathFrom(nodes, nodes[node].children[1],
                           Append(currentPath, nodes[node].children[1]))

\* getSinglePath without its test of _isInit.
getSinglePathUnchecked(tree) == getSinglePathFrom(tree.nodes, Root, <<>>)

\* FPTree.getSinglePath
getSinglePath(tree) ==
    IF ~tree.isInit THEN Throw ELSE getSinglePathFrom(tree.nodes, Root, <<>>)

\* isSinglePath taking an empty path for no path.
isSinglePathOfNodes(tree) ==
    IF ~tree.isInit THEN Throw
    ELSE IF getSinglePath(tree).isNull \/ getSinglePath(tree).value = <<>>
    THEN Return(FALSE) ELSE Return(TRUE)

\* FPTree.isSinglePath
isSinglePath(tree) ==
    IF ~tree.isInit THEN Throw
    ELSE IF getSinglePath(tree).isNull THEN Return(FALSE) ELSE Return(TRUE)

----------------------------------------------------------------------------
(* FPGrowth.  The operators thread ev, the sequence of the 'data' events    *)
(* emitted so far, and return it with the function's own return value.      *)
(* _fpGrowth also returns calls, one record per invocation of _fpGrowth it  *)
(* made, itself first, in the order of the invocations.                      *)

Min(a, b) == IF a <= b THEN a ELSE b

\* Math.ceil(num / den) for den > 0.
Ceil(num, den) == -((-num) \div den)

\* _getFrequentItemset without its emit.
getFrequentItemsetSilent(itemset, support, ev) ==
    [ret |-> [items |-> itemset, support |-> support], ev |-> ev]

\* FPGrowth._getFrequentItemset: formats the itemset and emits it.
getFrequentItemset(itemset, support, ev) ==
    LET ret == [items |-> itemset, support |-> support]
    IN  [ret |-> ret, ev |-> Append(ev, ret)]

RECURSIVE CountItems(_, _, _)
CountItems(count, arr, i) ==
    IF i > Len(arr) THEN count
    ELSE CountItems(Put(count, Stringify(arr[i]),
                        Get(count, Stringify(arr[i])) + 1), arr, i + 1)

RECURSIVE CountTransactions(_, _, _)
CountTransactions(count, transactions, i) ==
    IF i > Len(transactions) THEN count
    ELSE CountTransactions(CountItems(count, transactions[i], 1),
                           transactions, i + 1)

\* FPGrowth._getDistinctItemsCount
getDistinctItemsCount(transactions) ==
    CountTransactions(EmptyMap, transactions, 1)

RECURSIVE MapCombinationsOfSupport(_, _, _, _)
\* MapCombinations giving each new itemset the support of the itemset it
\* extends.
MapCombinationsOfSupport(itemsets, node, i, ev) ==
    IF i > Len(itemsets) THEN [ret |-> <<>>, ev |-> ev]
    ELSE LET one == getFrequentItemset(Append(itemsets[i].items, node.item),
                                       itemsets[i].support, ev)
             rest == MapCombinationsOfSupport(itemsets, node, i + 1, one.ev)
         IN  [ret |-> <<one.ret>> \o rest.ret, ev |-> rest.ev]

RECURSIVE MapCombinations(_, _, _, _)
\* itemsets.map(...) of _handleSinglePath: node is pushed to every itemset
\* found so far, each new itemset being emitted as it is made.
MapCombinations(itemsets, node, i, ev) ==
    IF i > Len(itemsets) THEN [ret |-> <<>>, ev |-> ev]
    ELSE LET one == getFrequentItemset(Append(itemsets[i].items, node.item),
                                       Min(itemsets[i].support, node.support), ev)
             rest == MapCombinations(itemsets, node, i + 1, one.ev)
         IN  [ret |-> <<one.ret>> \o rest.ret, ev |-> rest.ev]

RECURSIVE SinglePathFrom(_, _, _, _, _, _, _)
SinglePathFrom(nodes, singlePath, prefixSupport, prefix, i, itemsets, ev) ==
    IF i > Len(singlePath) THEN [ret |-> itemsets, ev |-> ev]
    ELSE LET node == nodes[singlePath[i]]
             mapped == MapCombinations(itemsets, node, 1, ev)
             single == getFrequentItemset(Append(prefix, node.item),
                                          Min(node.support, prefixSupport),
                                          mapped.ev)
         IN  SinglePathFrom(nodes, singlePath, prefixSupport, prefix, i + 1,
                            itemsets \o mapped.ret \o <<single.ret>>, single.ev)

\* FPGrowth._handleSinglePath: the combinations of the nodes of a single path.
handleSinglePath(nodes, singlePath, prefixSupport, prefix, ev) ==
    SinglePathFrom(nodes, singlePath, prefixSupport, prefix, 1, <<>>, ev)

RECURSIVE fpGrowth(_, _, _, _)
RECURSIVE MineHeaders(_, _, _, _, _, _)

\* The invocations of _fpGrowth made for a header come before those made for
\* the headers after it.
Nested(calls, rest) == [rest EXCEPT !.calls = calls \o @]

\* The reduce over tree.headers of _fpGrowth.
MineHeaders(tree, prefixSupport, prefix, i, itemsets, ev) ==
    IF i > Len(tree.headers) THEN [ret |-> itemsets, ev |-> ev, calls |-> <<>>]
    ELSE LET item == tree.headers[i]
             support == Min(Get(tree.supports, Stringify(item)), prefixSupport)
             currentPrefix == Append(prefix, item)
             mined == getFrequentItemset(currentPrefix, support, ev)
             pushed == Append(itemsets, mined.ret)
             childTree == getConditionalFPTree(tree, item)
             sub == fpGrowth(childTree.value, support, currentPrefix, mined.ev)
         IN  IF ~childTree.isNull
             THEN Nested(sub.calls,
                         MineHeaders(tree, prefixSupport, prefix, i + 1,
                                     pushed \o sub.ret, sub.ev))
             ELSE MineHeaders(tree, prefixSupport, prefix, i + 1,
                              pushed, mined.ev)

\* One invocation of _fpGrowth: its arguments (of the tree, the headers and,
\* if it is single-pathed, the item and the support of the nodes of its
\* path), the number of calls of getConditionalFPTree it made itself, and the
\* itemsets _handleSinglePath returned to it, if it called it.
FpGrowthCall(tree, prefixSupport, prefix, singlePath, combinations) ==
    [prefix |-> prefix,
     prefixSupport |-> prefixSupport,
     headers |-> tree.headers,
     shortcut |-> ~singlePath.isNull,
     path |-> IF singlePath.isNull THEN <<>>
              ELSE [i \in 1..Len(singlePath.value) |->
                       [item |-> tree.nodes[singlePath.value[i]].item,
                        support |-> tree.nodes[singlePath.value[i]].support]],
     conditionals |-> IF singlePath.isNull THEN Len(tree.headers) ELSE 0,
     combinations |-> combinations]

\* What an invocation of _fpGrowth returns, done being what the function it
\* called returned: the invocation itself comes first in calls.
Returned(done, call, nested) ==
    [ret |-> done.ret, ev |-> done.ev, calls |-> <<call>> \o nested]

\* FPGrowth._fpGrowth
fpGrowth(tree, prefixSupport, prefix, ev) ==
    LET singlePath == getSinglePath(tree)
        call(combinations) ==
            FpGrowthCall(tree, prefixSupport, prefix, singlePath, combinations)
        shortcut(done) == Returned(done, call(done.ret), <<>>)
        general(done) == Returned(done, call(<<>>), done.calls)
    IN  IF ~singlePath.isNull
        THEN shortcut(handleSinglePath(tree.nodes, singlePath.value,
                                       prefixSupport, prefix, ev))
        ELSE general(MineHeaders(tree, prefixSupport, prefix, 1, <<>>, ev))

\* FPGrowth.exec up to the call of cb: the absolute support it stores in
\* _support, the itemsets it returns, the 'data' events it emits and the
\* invocations of _fpGrowth it led to.
exec(support, transactions) ==
    LET absolute == Ceil(support.num * Len(transactions), support.den)
        supports == getDistinctItemsCount(transactions)
        tree == fromTransactions(NewFPTree(supports, absolute), transactions).tree
        mined == fpGrowth(tree, Len(transactions), <<>>, <<>>)
    IN  [support |-> [num |-> absolute, den |-> 1],
         result |-> mined.ret, data |-> mined.ev, calls |-> mined.calls]

RECURSIVE fpGrowthGeneral(_, _, _, _)
RECURSIVE MineHeadersGeneral(_, _, _, _, _, _)

\* The reduce over tree.headers of the _fpGrowth of src/src/fptree.ts.
MineHeadersGeneral(tree, prefixSupport, prefix, i, itemsets, ev) ==
    IF i > Len(tree.headers) THEN [ret |-> itemsets, ev |-> ev]
    ELSE LET item == tree.headers[i]
             support == Min(Get(tree.supports, Stringify(item)), prefixSupport)
             currentPrefix == Append(prefix, item)
             mined == getFrequentItemset(currentPrefix, support, ev)
             pushed == Append(itemsets, mined.ret)
             childTree == getConditionalFPTree(tree, item)
             sub == fpGrowthGeneral(childTree.value, support, currentPrefix,
                                    mined.ev)
         IN  IF ~childTree.isNull
             THEN MineHeadersGeneral(tree, prefixSupport, prefix, i + 1,
                                     pushed \o sub.ret, sub.ev)
             ELSE MineHeadersGeneral(tree, prefixSupport, prefix, i + 1,
                                     pushed, mined.ev)

\* FPGrowth._fpGrowth of src/src/fptree.ts, where the single-path shortcut is
\* left to do: the recursion over the headers alone.
fpGrowthGeneral(tree, prefixSupport, prefix, ev) ==
    MineHeadersGeneral(tree, prefixSupport, prefix, 1, <<>>, ev)

\* FPGrowth.exec of src/src/fptree.ts, given the absolute support.
execGeneral(absolute, transactions) ==
    LET supports == getDistinctItemsCount(transactions)
        tree == fromTransactions(NewFPTree(supports, absolute), transactions).tree
    IN  fpGrowthGeneral(tree, Len(transactions), <<>>, <<>>).ret

\* The example of the README.
ExampleTransactions ==
    << <<1, 3, 4>>, <<2, 3, 5>>, <<1, 2, 3, 5>>, <<2, 5>>, <<1, 2, 3, 5>> >>

----------------------------------------------------------------------------
(* The inputs *)

\* The items of the generated transactions: "10" sorts before "2" and "3" as
\* a string and after them as a number.
Items == {2, 3, 10}

\* The size of the generated inputs: the largest number of item occurrences
\* in the transactions.
MaxOccurrences == 6
\* The longest generated transaction holds half of them.
MaxLen == MaxOccurrences \div 2
\* The largest number of generated transactions.
MaxTransactions == MaxOccurrences \div 2
\* The number of calls of exec in one behaviour.
MaxRuns == 2
\* The largest number of item occurrences in the transactions exec is called
\* on a second time.
MaxRerunOccurrences == 2
\* The largest number of item occurrences in the transactions an FPTree
\* object is exercised with.
MaxTreeOccurrences == 4
\* The largest number of item occurrences in the transactions mined with a
\* relative support outside ]0, 1[.
MaxInvalidOccurrences == 1

Transaction == UNION {[1..n -> Items] : n \in 0..MaxLen}

RECURSIVE Occurrences(_)
Occurrences(transactions) ==
    IF Len(transactions) = 0 THEN 0
    ELSE Len(Head(transactions)) + Occurrences(Tail(transactions))

RECURSIVE InputsWith(_, _)
\* The arrays of n transactions with at most k item occurrences.
InputsWith(n, k) ==
    IF n = 0 THEN {<<>>}
    ELSE UNION {{<<t>> \o rest : rest \in InputsWith(n - 1, k - Len(t))} :
                   t \in {t \in Transaction : Len(t) <= k}}

\* The generated inputs, and the example of the README.
Inputs ==
    UNION {InputsWith(n, MaxOccurrences) : n \in 0..MaxTransactions}
    \cup {ExampleTransactions}

\* The relative supports given to the constructor, as fractions.
RelativeSupports == {[num |-> 1, den |-> 10], [num |-> 4, den |-> 10]}

\* The numbers the constructor also takes, having no test of its parameter:
\* a negative one, zero, one, and one above one.
InvalidSupports ==
    {[num |-> -1, den |-> 10], [num |-> 0, den |-> 10],
     [num |-> 10, den |-> 10], [num |-> 15, den |-> 10]}

\* The relative supports an FPGrowth object mining the transactions is
\* constructed with.
ConstructorSupports(transactions) ==
    IF Occurrences(transactions) <= MaxInvalidOccurrences
    THEN RelativeSupports \cup InvalidSupports
    ELSE RelativeSupports

----------------------------------------------------------------------------
(* The state *)

VARIABLES
    input,           \* the caller's transactions
    relative,        \* the relative support the caller constructs FPGrowth with
    fpSupport,       \* FPGrowth._support
    fpTransactions,  \* FPGrowth._transactions
    execs,           \* the calls of exec on the current FPGrowth object
    runs,            \* one record per call of exec, in order
    trace,           \* what exec did to its caller: 'data' events, cb, resolve
    pathInputs,      \* the caller's arrays of prefix paths
    tree,            \* an FPTree object
    builtBy,         \* the builder that built tree, "none" before
    call             \* the last call made on tree and its outcome

minerVars == <<fpSupport, fpTransactions, execs, runs, trace>>
treeVars == <<tree, builtBy, call>>
vars == <<input, relative, pathInputs, minerVars, treeVars>>

RECURSIVE ItemsOf(_)
ItemsOf(transactions) ==
    IF Len(transactions) = 0 THEN {}
    ELSE {Head(transactions)[i] : i \in 1..Len(Head(transactions))}
         \cup ItemsOf(Tail(transactions))

\* The items the queries are made with: some are in no transaction.
QueryItems == Items \cup ItemsOf(input)

\* The arrays of prefix paths fromPrefixPaths is called with: those of the
\* items in the tree of the transactions.
PrefixPathInputs(fresh) ==
    UNION {{getPrefixPaths(source, item).value : item \in QueryItems} :
              source \in {fromTransactions(fresh, input).tree}}

NoCall == [op |-> "none", wasInit |-> FALSE, arg |-> 0, out |-> ReturnNull]

Start(inputs) ==
    /\ input \in inputs
    /\ relative \in ConstructorSupports(input)
    /\ fpSupport = relative
    /\ fpTransactions = <<>>
    /\ execs = 0
    /\ runs = <<>>
    /\ trace = <<>>
    /\ tree = NewFPTree(getDistinctItemsCount(input),
                        Ceil(relative.num * Len(input), relative.den))
    /\ pathInputs = PrefixPathInputs(tree)
    /\ builtBy = "none"
    /\ call = NoCall

Init == Start(Inputs)

----------------------------------------------------------------------------
(* The caller of FPGrowth *)

DataEvents(run, data) ==
    [i \in 1..Len(data) |-> [run |-> run, kind |-> "data", itemset |-> data[i]]]

\* fpgrowth.exec(input, cb): the whole synchronous call, the promise's
\* executor included; cb is optional.
Exec ==
    /\ Len(runs) < MaxRuns
    /\ runs # <<>> => Occurrences(input) <= MaxRerunOccurrences
    /\ \E done \in {exec(fpSupport, input)} :
       LET run == Len(runs) + 1
           called(cb) == IF cb THEN <<[run |-> run, kind |-> "cb"]>> ELSE <<>>
       IN  \E cb \in BOOLEAN :
             /\ fpTransactions' = input
             /\ fpSupport' = done.support
             /\ execs' = execs + 1
             /\ runs' = Append(runs, [fresh |-> execs = 0,
                                      threshold |-> done.support.num,
                                      result |-> done.result,
                                      calls |-> done.calls])
             /\ trace' = trace \o DataEvents(run, done.data) \o called(cb)
                               \o <<[run |-> run, kind |-> "resolve"]>>
    /\ UNCHANGED <<input, relative, pathInputs, treeVars>>

\* new FPGrowth(relative)
New ==
    /\ execs > 0
    /\ Len(runs) < MaxRuns
    /\ Occurrences(input) <= MaxRerunOccurrences
    /\ fpSupport' = relative
    /\ fpTransactions' = <<>>
    /\ execs' = 0
    /\ UNCHANGED <<input, relative, pathInputs, runs, trace, treeVars>>

Next == Exec \/ New

Spec == Init /\ [][Next]_vars

----------------------------------------------------------------------------
(* The caller of FPTree: tree is new FPTree(supports, support), with the   *)
(* supports and the support exec would give it.                            *)

\* The transactions an FPTree object is exercised with.
TreeInputs ==
    {t \in Inputs : Occurrences(t) <= MaxTreeOccurrences}
    \cup {ExampleTransactions}

InitTree == Start(TreeInputs)

\* What a builder returns: the tree itself, unless it threw.
BuilderOutcome(out) == IF out.threw THEN Throw ELSE Return(<<>>)

\* tree.fromTransactions(input)
TreeFromTransactions ==
    /\ \E out \in {fromTransactions(tree, input)} :
         /\ tree' = out.tree
         /\ builtBy' = IF out.threw THEN builtBy ELSE "fromTransactions"
         /\ call' = [op |-> "fromTransactions", wasInit |-> tree.isInit,
                     arg |-> 0, out |-> BuilderOutcome(out)]
    /\ UNCHANGED <<input, relative, pathInputs, minerVars>>

\* tree.fromPrefixPaths(prefixPaths)
TreeFromPrefixPaths ==
    /\ \E prefixPaths \in pathInputs :
       \E out \in {fromPrefixPaths(tree, prefixPaths)} :
         /\ tree' = out.tree
         /\ builtBy' = IF out.threw THEN builtBy ELSE "fromPrefixPaths"
         /\ call' = [op |-> "fromPrefixPaths", wasInit |-> tree.isInit,
                     arg |-> prefixPaths, out |-> BuilderOutcome(out)]
    /\ UNCHANGED <<input, relative, pathInputs, minerVars>>

\* tree.getPrefixPaths(item)
TreeGetPrefixPaths ==
    /\ \E item \in QueryItems :
         call' = [op |-> "getPrefixPaths", wasInit |-> tree.isInit,
                  arg |-> item, out |-> getPrefixPaths(tree, item)]
    /\ UNCHANGED <<input, relative, pathInputs, minerVars, tree, builtBy>>

\* tree.getPrefixPath(node), for a node of the tree
TreeGetPrefixPath ==
    /\ \E node \in 1..Len(tree.nodes) :
         call' = [op |-> "getPrefixPath", wasInit |-> tree.isInit,
                  arg |-> node, out |-> getPrefixPath(tree, node, EmptyMap).out]
    /\ UNCHANGED <<input, relative, pathInputs, minerVars, tree, builtBy>>

\* tree.isSinglePath()
TreeIsSinglePath ==
    /\ call' = [op |-> "isSinglePath", wasInit |-> tree.isInit,
                arg |-> 0, out |-> isSinglePath(tree)]
    /\ UNCHANGED <<input, relative, pathInputs, minerVars, tree, builtBy>>

RECURSIVE ShiftedFrom(_, _)
\* The nodes after a descent that takes each only child out of its parent's
\* children with shift().
ShiftedFrom(nodes, node) ==
    IF Len(nodes[node].children) # 1 THEN nodes
    ELSE ShiftedFrom([nodes EXCEPT ![node].children = <<>>],
                     nodes[node].children[1])

\* tree.getSinglePath() with a _getSinglePath that shifts the children.
TreeGetSinglePathShifting ==
    /\ call' = [op |-> "getSinglePath", wasInit |-> tree.isInit,
                arg |-> 0, out |-> getSinglePath(tree)]
    /\ tree' = IF tree.isInit
               THEN [tree EXCEPT !.nodes = ShiftedFrom(tree.nodes, Root)]
               ELSE tree
    /\ UNCHANGED <<input, relative, pathInputs, minerVars, builtBy>>

\* tree.getSinglePath()
TreeGetSinglePath ==
    /\ call' = [op |-> "getSinglePath", wasInit |-> tree.isInit,
                arg |-> 0, out |-> getSinglePath(tree)]
    /\ UNCHANGED <<input, relative, pathInputs, minerVars, tree, builtBy>>

\* tree.getConditionalFPTree(item)
TreeGetConditionalFPTree ==
    /\ \E item \in QueryItems :
         call' = [op |-> "getConditionalFPTree", wasInit |-> tree.isInit,
                  arg |-> item, out |-> getConditionalFPTree(tree, item)]
    /\ UNCHANGED <<input, relative, pathInputs, minerVars, tree, builtBy>>

\* this._fpGrowth(tree, transactions.length): what exec does with the tree
\* that fromTransactions has just returned.
TreeFpGrowth ==
    /\ call.op = "fromTransactions"
    /\ builtBy = "fromTransactions"
    /\ \E mined \in {fpGrowth(tree, Len(input), <<>>, <<>>)} :
         call' = [op |-> "fpGrowth", wasInit |-> tree.isInit,
                  arg |-> 0, out |-> Return(mined.ret)]
    /\ UNCHANGED <<input, relative, pathInputs, minerVars, tree, builtBy>>

\* The caller goes on with the conditional tree the last call returned, a
\* tree that getConditionalFPTree built with fromPrefixPaths.
TreeAdopt ==
    /\ call.op = "getConditionalFPTree"
    /\ ~call.out.threw /\ ~call.out.isNull
    /\ tree' = call.out.value
    /\ builtBy' = "fromPrefixPaths"
    /\ call' = NoCall
    /\ UNCHANGED <<input, relative, pathInputs, minerVars>>

NextTree ==
    \/ TreeFromTransactions
    \/ TreeFromPrefixPaths
    \/ TreeGetPrefixPaths
    \/ TreeGetPrefixPath
    \/ TreeIsSinglePath
    \/ TreeGetSinglePath
    \/ TreeGetConditionalFPTree
    \/ TreeFpGrowth
    \/ TreeAdopt

SpecTree == InitTree /\ [][NextTree]_vars

----------------------------------------------------------------------------
(* What the claims are stated with *)

\* The set of the items of an itemset or of a transaction.
ItemSet(items) == {items[i] : i \in 1..Len(items)}

\* Brute-force counting: the transactions that contain every item of S.
TransactionCount(transactions, S) ==
    Cardinality({i \in 1..Len(transactions) : S \subseteq ItemSet(transactions[i])})

\* The absolute minimum support of the caller's relative support.
AbsoluteSupport == Ceil(relative.num * Len(input), relative.den)

\* An emitted itemset as a pair (set of items, support).
Pair(itemset) == [items |-> ItemSet(itemset.items), support |-> itemset.support]

Pairs(itemsets) == {Pair(itemsets[k]) : k \in 1..Len(itemsets)}

\* The emitted itemsets of a result whose set of items is S.
Emitted(result, S) == {k \in 1..Len(result) : ItemSet(result[k].items) = S}

\* Two results hold the same multiset of (set of items, support) pairs.
SameMultiset(a, b) ==
    /\ Len(a) = Len(b)
    /\ \A p \in Pairs(a) \cup Pairs(b) :
          Cardinality({k \in 1..Len(a) : Pair(a[k]) = p})
              = Cardinality({k \in 1..Len(b) : Pair(b[k]) = p})

\* The non-empty sets of items of the input.
ItemCombinations == (SUBSET ItemsOf(input)) \ {{}}

\* The 'data' events of a run, in the order of their emission.
DataOf(run) ==
    LET events == SelectSeq(trace, LAMBDA e : e.run = run /\ e.kind = "data")
    IN  [i \in 1..Len(events) |-> events[i].itemset]

\* The positions in trace of the events of a kind of a run.
Positions(run, kind) ==
    {i \in 1..Len(trace) : trace[i].run = run /\ trace[i].kind = kind}

RECURSIVE Dedup(_)
\* A transaction without the repeated occurrences of its items.
Dedup(transaction) ==
    IF Len(transaction) = 0 THEN <<>>
    ELSE LET front == Dedup(SubSeq(transaction, 1, Len(transaction) - 1))
             last == transaction[Len(transaction)]
         IN  IF last \in ItemSet(front) THEN front ELSE Append(front, last)

DedupAll(transactions) ==
    [i \in 1..Len(transactions) |-> Dedup(transactions[i])]

\* The tree exec builds from the input.
MinedTree(transactions) ==
    fromTransactions(NewFPTree(getDistinctItemsCount(transactions),
                               Ceil(relative.num * Len(transactions), relative.den)),
                     transactions).tree

----------------------------------------------------------------------------
(* The claims *)

\* C1: every itemset exec returns carries as its support the number of the
\* input transactions that contain all its items.
C1_SupportIsExactCount ==
    \A r \in 1..Len(runs) : \A k \in 1..Len(runs[r].result) :
        runs[r].result[k].support
            = TransactionCount(input, ItemSet(runs[r].result[k].items))

\* C2: every set of items whose transaction count meets the absolute minimum
\* support is emitted exactly once, no two emitted itemsets have the same set
\* of items, and a frequent single item is emitted once with its count.
C2_EachFrequentSetOnce ==
    \A r \in 1..Len(runs) :
        /\ \A S \in ItemCombinations :
              TransactionCount(input, S) >= AbsoluteSupport
                  => Cardinality(Emitted(runs[r].result, S)) = 1
        /\ \A j, k \in 1..Len(runs[r].result) :
              ItemSet(runs[r].result[j].items) = ItemSet(runs[r].result[k].items)
                  => j = k
        /\ \A item \in ItemsOf(input) :
              TransactionCount(input, {item}) >= AbsoluteSupport
                  => \E k \in 1..Len(runs[r].result) :
                        /\ Emitted(runs[r].result, {item}) = {k}
                        /\ runs[r].result[k].support
                               = TransactionCount(input, {item})

\* C3: no itemset is returned or emitted as a 'data' event with a support
\* below the absolute minimum support.
C3_NoSupportBelowThreshold ==
    /\ \A r \in 1..Len(runs) : \A k \in 1..Len(runs[r].result) :
          runs[r].result[k].support >= AbsoluteSupport
    /\ \A i \in 1..Len(trace) :
          trace[i].kind = "data" => trace[i].itemset.support >= AbsoluteSupport

\* The itemsets the specification expects of the README example.
ExampleExpected ==
    {[items |-> {5}, support |-> 4], [items |-> {2, 5}, support |-> 4],
     [items |-> {2}, support |-> 4], [items |-> {3}, support |-> 4],
     [items |-> {1, 3}, support |-> 3], [items |-> {1}, support |-> 3],
     [items |-> {2, 3}, support |-> 3], [items |-> {1, 2, 3}, support |-> 2],
     [items |-> {1, 2}, support |-> 2]}

\* The itemsets of the README example the expectation leaves out.
ExampleMissing ==
    {[items |-> {3, 5}, support |-> 3], [items |-> {2, 3, 5}, support |-> 3],
     [items |-> {1, 5}, support |-> 2], [items |-> {1, 3, 5}, support |-> 2],
     [items |-> {1, 2, 5}, support |-> 2],
     [items |-> {1, 2, 3, 5}, support |-> 2]}

\* A first run on the README example with relative support 0.4.
ExampleRun(r) ==
    /\ input = ExampleTransactions
    /\ relative = [num |-> 4, den |-> 10]
    /\ r \in 1..Len(runs)
    /\ runs[r].fresh

\* C4, as stated: on the README example with relative support 0.4 the
\* returned set of itemsets is exactly the nine expected ones.
C4_ExampleAsStated ==
    \A r \in 1..Len(runs) :
        ExampleRun(r) => Pairs(runs[r].result) = ExampleExpected

\* C4, amended: on the README example with relative support 0.4 the threshold
\* is 2, no returned itemset holds item 4, and the returned itemsets are the
\* nine expected ones and the six other frequent ones, each once.
C4_ExampleItemsets ==
    \A r \in 1..Len(runs) :
        ExampleRun(r) =>
            /\ runs[r].threshold = 2
            /\ \A k \in 1..Len(runs[r].result) :
                  4 \notin ItemSet(runs[r].result[k].items)
            /\ Pairs(runs[r].result) = ExampleExpected \cup ExampleMissing
            /\ Len(runs[r].result) = 15

C4_Witness == ExampleRun(1)

\* C5: an item repeated in a transaction counts once in the first scan, has
\* one node on the transaction's path, and the mined itemsets are those of
\* the de-duplicated transactions.
C5_DuplicatesCountOnce ==
    /\ getDistinctItemsCount(input) = getDistinctItemsCount(DedupAll(input))
    /\ MinedTree(input).nodes = MinedTree(DedupAll(input)).nodes
    /\ \A r \in 1..Len(runs) :
          runs[r].fresh
              => SameMultiset(runs[r].result,
                              exec(relative, DedupAll(input)).result)

\* C6: the 'data' events of a call of exec are its returned array, element
\* for element and in order, and all come before cb and before resolve.
C6_DataEventsAreTheResult ==
    \A r \in 1..Len(runs) :
        /\ DataOf(r) = runs[r].result
        /\ Cardinality(Positions(r, "resolve")) = 1
        /\ \A d \in Positions(r, "data") :
              \A c \in Positions(r, "cb") \cup Positions(r, "resolve") : d < c

\* A run through the header recursion and the shortcut, with a callback.
C6_Witness ==
    /\ Len(runs) >= 1
    /\ getSinglePath(MinedTree(input)).isNull
    /\ Len(runs[1].result) >= 4
    /\ \E k \in 1..Len(runs[1].result) : Len(runs[1].result[k].items) >= 2
    /\ Positions(1, "cb") # {}

\* C7: running exec again on the same transactions, on a fresh FPGrowth
\* object or on the same one, yields the same multiset of itemsets.
C7_RerunSameResult ==
    \A r, q \in 1..Len(runs) : SameMultiset(runs[r].result, runs[q].result)

InvalidSupport(support) == support.num <= 0 \/ support.num >= support.den

\* C13: exec on an object constructed with a relative support that is
\* negative, zero, or one or more fails with a validation error: it emits no
\* itemset and does not resolve with a result.
C13_InvalidSupportRejected ==
    \A r \in 1..Len(runs) :
        (runs[r].fresh /\ InvalidSupport(relative)) =>
            /\ Positions(r, "error") # {}
            /\ Positions(r, "data") = {}
            /\ Positions(r, "resolve") = {}

\* The non-empty sets of positions of a path.
Subsets(path) == (SUBSET (1..Len(path))) \ {{}}

RECURSIVE Pick(_, _, _)
\* The items of the nodes of path at the positions of S, in root-to-leaf
\* order.
Pick(path, S, i) ==
    IF i > Len(path) THEN <<>>
    ELSE (IF i \in S THEN <<path[i].item>> ELSE <<>>) \o Pick(path, S, i + 1)

\* The least of the supports of the nodes at the positions of S and of cap.
LeastSupport(path, S, cap) ==
    CHOOSE m \in {path[i].support : i \in S} \cup {cap} :
        \A o \in {path[i].support : i \in S} \cup {cap} : m <= o

\* The itemset an invocation of _fpGrowth owes to the set S of nodes of its
\* single path.
Combination(c, S) ==
    [items |-> c.prefix \o Pick(c.path, S, 1),
     support |-> LeastSupport(c.path, S, c.prefixSupport)]

\* C14: an invocation of _fpGrowth on a single-pathed tree of n nodes returns
\* 2^n - 1 itemsets, one for each non-empty set of nodes of the path: the
\* prefix followed by the items of the set in root-to-leaf order, with the
\* least of the supports of its nodes and of prefixSupport; it builds no
\* conditional tree.  (Stated of the latest run: every run is the latest one
\* in the state its call of exec leads to, and is not changed afterwards.)
C14_ShortcutCombinations ==
    \A r \in {Len(runs)} \ {0} : \A k \in 1..Len(runs[r].calls) :
        LET c == runs[r].calls[k]
        IN  c.shortcut =>
              /\ Len(c.combinations) = 2 ^ Len(c.path) - 1
              /\ \A S \in Subsets(c.path) :
                    Cardinality({j \in 1..Len(c.combinations) :
                                    c.combinations[j] = Combination(c, S)})
                      = Cardinality({T \in Subsets(c.path) :
                                        Combination(c, T) = Combination(c, S)})
              /\ c.conditionals = 0
              /\ k < Len(runs[r].calls) =>
                    Len(runs[r].calls[k + 1].prefix) <= Len(c.prefix)

\* The shortcut taken on a conditional tree: a prefix, and a path of two
\* nodes or more whose supports differ.
C14_Witness ==
    \E r \in 1..Len(runs) : \E k \in 1..Len(runs[r].calls) :
        LET c == runs[r].calls[k]
        IN  /\ c.shortcut
            /\ c.prefix # <<>>
            /\ Len(c.path) >= 2
            /\ c.path[1].support > c.path[2].support

\* C15: mining with the single-path shortcut and mining by the recursion over
\* the headers alone return the same multiset of (set of items, support)
\* pairs.
C15_ShortcutAgrees ==
    \A r \in 1..Len(runs) :
        SameMultiset(runs[r].result, execGeneral(runs[r].threshold, input))

\* The invocations of _fpGrowth of a run that made the invocation d: those
\* whose prefix is the prefix of d without its last item.
CallersOf(r, d) ==
    {j \in 1..Len(runs[r].calls) :
        runs[r].calls[j].prefix = SubSeq(d.prefix, 1, Len(d.prefix) - 1)}

\* C16: the conditional tree of a header item X that _fpGrowth recurses into
\* has no node carrying X, and its headers are a part of the headers of the
\* tree it was made from, and not all of them; the depth of the recursion is
\* at most the number of the headers of the root tree.
C16_ConditionalTreesShrink ==
    \A r \in 1..Len(runs) :
        /\ \A k \in 2..Len(runs[r].calls) :
              LET d == runs[r].calls[k]
              IN  /\ d.prefix[Len(d.prefix)] \notin ItemSet(d.headers)
                  /\ \A j \in CallersOf(r, d) :
                        /\ ItemSet(d.headers) \subseteq ItemSet(runs[r].calls[j].headers)
                        /\ ItemSet(d.headers) # ItemSet(runs[r].calls[j].headers)
        /\ \A k \in 1..Len(runs[r].calls) :
              Len(runs[r].calls[k].prefix)
                  <= Cardinality(ItemSet(runs[r].calls[1].headers))

----------------------------------------------------------------------------
(* The claims about an FPTree object, under SpecTree *)

Builders == {"fromTransactions", "fromPrefixPaths"}

\* C9: a builder called on a built tree throws and leaves the tree as it was.
C9_RebuildFails ==
    [][(tree.isInit /\ call'.op \in Builders)
           => (call'.out.threw /\ tree' = tree)]_vars

\* A tree built from transactions, then fromPrefixPaths called on it.
C9_Witness ==
    /\ call.op = "fromPrefixPaths"
    /\ call.wasInit /\ call.out.threw
    /\ builtBy = "fromTransactions"
    /\ Len(tree.nodes) >= 4

\* C10, as stated: each of the five queries throws on a tree not yet built.
C10_AsStated ==
    (/\ ~call.wasInit
     /\ call.op \in {"getPrefixPaths", "getPrefixPath", "isSinglePath",
                     "getSinglePath", "getConditionalFPTree"})
        => call.out.threw

\* C10, amended: on a tree not yet built getPrefixPaths, getPrefixPath,
\* isSinglePath and getSinglePath throw, for every argument, and
\* getConditionalFPTree returns null without throwing.
C10_QueriesBeforeBuild ==
    /\ (/\ ~call.wasInit
        /\ call.op \in {"getPrefixPaths", "getPrefixPath", "isSinglePath",
                        "getSinglePath"})
           => call.out.threw
    /\ (~call.wasInit /\ call.op = "getConditionalFPTree")
           => (~call.out.threw /\ call.out.isNull)

\* getConditionalFPTree called on a tree not yet built, with an item of the
\* transactions the tree is to be built from.
C10_Witness ==
    /\ call.op = "getConditionalFPTree"
    /\ ~call.wasInit
    /\ call.arg \in ItemsOf(input)
    /\ ~tree.isInit

\* The nodes of a tree that carry an item.
NodesOf(t, item) == {n \in 2..Len(t.nodes) : t.nodes[n].item = item}

RECURSIVE PathSupports(_, _, _)
\* The support table of an array of prefix paths: every occurrence of an item
\* in a path adds the support of the path.
PathSupports(count, prefixPaths, i) ==
    IF i > Len(prefixPaths) THEN count
    ELSE LET p == prefixPaths[i]
             occurrences(key) ==
                 Cardinality({j \in 1..Len(p.path) : Stringify(p.path[j]) = key})
             keys == {Stringify(p.path[j]) : j \in 1..Len(p.path)}
         IN  PathSupports(
                 [k \in DOMAIN count \cup keys |->
                     Get(count, k) + p.support * occurrences(k)],
                 prefixPaths, i + 1)

\* The tree built from the prefix paths of an item of a built tree.
PrefixPathTree(t, item) ==
    LET prefixPaths == getPrefixPaths(t, item).value
    IN  fromPrefixPaths(NewFPTree(PathSupports(EmptyMap, prefixPaths, 1), t.support),
                        prefixPaths).tree

\* C11: getConditionalFPTree never throws; it returns null exactly when the
\* tree is not built, or the item has no node in it, or the tree built from
\* the item's prefix paths has a childless root; otherwise it returns a built
\* tree whose root has a child.
C11_ConditionalTreeOrNull ==
    call.op = "getConditionalFPTree" =>
        /\ ~call.out.threw
        /\ call.out.isNull <=>
              \/ ~tree.isInit
              \/ NodesOf(tree, call.arg) = {}
              \/ PrefixPathTree(tree, call.arg).nodes[Root].children = <<>>
        /\ ~call.out.isNull =>
              /\ call.out.value.isInit
              /\ Len(call.out.value.nodes[Root].children) >= 1
              /\ call.out.value = PrefixPathTree(tree, call.arg)

\* getConditionalFPTree returned null for an item that has prefix paths in a
\* built tree: every item of the paths was pruned.
C11_Witness ==
    /\ call.op = "getConditionalFPTree"
    /\ tree.isInit
    /\ getPrefixPaths(tree, call.arg).value # <<>>
    /\ call.out.isNull

\* No node of the tree, the root included, has more than one child.
SinglePathed(t) == \A n \in 1..Len(t.nodes) : Len(t.nodes[n].children) <= 1

\* path holds the nodes from the root's child down to a leaf, in that order.
RootToLeaf(t, path) ==
    /\ path = <<>> <=> t.nodes[Root].children = <<>>
    /\ \A i \in 1..Len(path) :
          /\ path[i] \in 2..Len(t.nodes)
          /\ t.nodes[path[i]].parent = (IF i = 1 THEN Root ELSE path[i - 1])
    /\ path # <<>> => t.nodes[path[Len(path)]].children = <<>>

\* C12: on a built tree isSinglePath is true exactly when no node has more
\* than one child; getSinglePath then returns the nodes from the root's child
\* down to the leaf, in that order and without the root, and null otherwise;
\* a childless root gives the empty path, and isSinglePath is true.
C12_SinglePath ==
    /\ (call.op = "isSinglePath" /\ call.wasInit) =>
          /\ ~call.out.threw /\ ~call.out.isNull
          /\ call.out.value = SinglePathed(tree)
          /\ tree.nodes[Root].children = <<>> => call.out.value
    /\ (call.op = "getSinglePath" /\ call.wasInit) =>
          /\ ~call.out.threw
          /\ call.out.isNull <=> ~SinglePathed(tree)
          /\ ~call.out.isNull => RootToLeaf(tree, call.out.value)
          /\ tree.nodes[Root].children = <<>> =>
                (~call.out.isNull /\ call.out.value = <<>>)

\* getSinglePath returned a path of two nodes or more.
C12_Witness ==
    /\ call.op = "getSinglePath"
    /\ call.wasInit
    /\ ~call.out.isNull
    /\ Len(call.out.value) >= 2

RECURSIVE LinkChain(_, _, _)
\* The nodes met by following nextSameItemNode from node; a node met a second
\* time ends the chain and is in it twice.
LinkChain(t, node, seen) ==
    IF node = null THEN <<>>
    ELSE IF node \in seen THEN <<node>>
    ELSE <<node>> \o LinkChain(t, t.nodes[node].nextSameItemNode, seen \cup {node})

\* The items that have a node in the tree.
TreeItems(t) == {t.nodes[n].item : n \in 2..Len(t.nodes)}

\* The node-links of a tree: the chain of each item that has a node starts at
\* firstInserted, holds the nodes of the item and no other, each once, in
\* the order of their creation (a node's index), and ends at lastInserted,
\* which has no next node.
NodeLinksInOrder(t) ==
    /\ DOMAIN t.firstInserted = {Stringify(item) : item \in TreeItems(t)}
    /\ DOMAIN t.lastInserted = DOMAIN t.firstInserted
    /\ \A item \in TreeItems(t) :
          LET chain == LinkChain(t, t.firstInserted[Stringify(item)], {})
          IN  /\ Len(chain) = Cardinality(NodesOf(t, item))
              /\ \A i \in 1..Len(chain) : chain[i] \in NodesOf(t, item)
              /\ \A i, j \in 1..Len(chain) : i < j => chain[i] < chain[j]
              /\ chain[Len(chain)] = t.lastInserted[Stringify(item)]
              /\ t.nodes[chain[Len(chain)]].nextSameItemNode = null

\* The tree after the insertion of the first k transactions of the input.
TreeAfter(k) ==
    AddTransactions(NewFPTree(getDistinctItemsCount(input), tree.support),
                    SubSeq(input, 1, k), 1)

\* C17: after any sequence of insertions the node-links of every item that
\* has a node form one chain from firstInserted to lastInserted, holding the
\* nodes of the item in the order of their creation, without a cycle.
C17_NodeLinks ==
    /\ NodeLinksInOrder(tree)
    /\ (call.op = "fromTransactions" /\ ~call.wasInit) =>
          /\ tree.nodes = TreeAfter(Len(input)).nodes
          /\ \A k \in 0..Len(input) : NodeLinksInOrder(TreeAfter(k))

\* A tree just built from transactions in which an item has two nodes or
\* more.
C17_Witness ==
    /\ call.op = "fromTransactions"
    /\ ~call.wasInit
    /\ \E item \in TreeItems(tree) : Cardinality(NodesOf(tree, item)) >= 2

RECURSIVE BranchOf(_, _)
\* The items from the root's child down to a node.
BranchOf(t, node) ==
    IF node = Root THEN <<>>
    ELSE Append(BranchOf(t, t.nodes[node].parent), t.nodes[node].item)

\* The items of a transaction or of a prefix path that the table of supports
\* of the tree holds with the minimum support or more.
Kept(t, items) ==
    SelectSeq(items, LAMBDA item : Get(t.supports, Stringify(item)) >= t.support
                                   /\ Stringify(item) \in DOMAIN t.supports)

\* ordered holds the items of items, as many times each, by descending
\* support, the items of equal support by descending stringified item.
SortedBySupport(t, ordered, items) ==
    /\ Len(ordered) = Len(items)
    /\ \A item \in ItemSet(items) \cup ItemSet(ordered) :
          Cardinality({i \in 1..Len(ordered) : ordered[i] = item})
              = Cardinality({i \in 1..Len(items) : items[i] = item})
    /\ \A i \in 1..Len(ordered) - 1 :
          \/ t.supports[Stringify(ordered[i])] > t.supports[Stringify(ordered[i + 1])]
          \/ /\ t.supports[Stringify(ordered[i])] = t.supports[Stringify(ordered[i + 1])]
             /\ localeCompare(Stringify(ordered[i]), Stringify(ordered[i + 1])) >= 0

\* The weighted sequences of items a builder was called with.
BuilderInputs ==
    IF call.op = "fromTransactions"
    THEN [i \in 1..Len(input) |-> [path |-> input[i], support |-> 1]]
    ELSE call.arg

RECURSIVE SumOver(_, _)
SumOver(weights, indices) ==
    IF indices = {} THEN 0
    ELSE LET i == CHOOSE i \in indices : TRUE
         IN  weights[i].support + SumOver(weights, indices \ {i})

\* The total weight of the inputs whose pruned and sorted items start with
\* branch.
WeightOf(t, inputs, branch) ==
    SumOver(inputs,
            {i \in 1..Len(inputs) :
                LET items == PruneAndSort(t, inputs[i].path)
                IN  /\ Len(items) >= Len(branch)
                    /\ SubSeq(items, 1, Len(branch)) = branch})

\* C18: the tree a builder leaves is the counted prefix tree of its pruned
\* and sorted inputs: no two children of a node carry the same item, every
\* item in the tree has a support of the minimum support or more in the table
\* of supports, and the support of a node is the total weight of the inputs
\* whose pruned items, sorted by descending support and then by descending
\* stringified item, start with the items from the root down to the node.
C18_CountedPrefixTree ==
    (call.op \in Builders /\ ~call.wasInit) =>
        /\ ~call.out.threw /\ tree.isInit
        /\ \A i \in 1..Len(BuilderInputs) :
              SortedBySupport(tree, PruneAndSort(tree, BuilderInputs[i].path),
                              Kept(tree, BuilderInputs[i].path))
        /\ \A n, m \in 2..Len(tree.nodes) :
              (tree.nodes[n].parent = tree.nodes[m].parent
                  /\ tree.nodes[n].item = tree.nodes[m].item) => n = m
        /\ \A item \in TreeItems(tree) :
              Get(tree.supports, Stringify(item)) >= tree.support
        /\ \A n \in 2..Len(tree.nodes) :
              tree.nodes[n].support
                  = WeightOf(tree, BuilderInputs, BranchOf(tree, n))
        /\ \A i \in 1..Len(BuilderInputs) :
              LET items == PruneAndSort(tree, BuilderInputs[i].path)
              IN  items # <<>> =>
                     \E n \in 2..Len(tree.nodes) : BranchOf(tree, n) = items

\* A tree just built from prefix paths, one of them of a support above 1,
\* with a node of a support above 1.
C18_Witness ==
    /\ call.op = "fromPrefixPaths"
    /\ ~call.wasInit
    /\ \E i \in 1..Len(call.arg) : call.arg[i].support >= 2
    /\ \E n \in 2..Len(tree.nodes) : tree.nodes[n].support >= 2

RECURSIVE SupportOf(_, _)
\* The sum of the supports of a set of nodes.
SupportOf(t, nodes) ==
    IF nodes = {} THEN 0
    ELSE LET n == CHOOSE n \in nodes : TRUE
         IN  t.nodes[n].support + SupportOf(t, nodes \ {n})

\* The nodes carrying X that have a node carrying Y among their ancestors
\* below the root.
NodesBelow(t, X, Y) ==
    {n \in NodesOf(t, X) : Y \in ItemSet(BranchOf(t, t.nodes[n].parent))}

\* C19: the tree getConditionalFPTree(X) returns has the minimum support of
\* the tree it is made from and a table of supports of its own, where the
\* support of an item Y is the sum of the supports of the X-nodes that have a
\* Y-node among their ancestors below the root; it holds exactly the items
\* of those ancestors for which that sum is the minimum support or more.
C19_ConditionalSupports ==
    (call.op = "getConditionalFPTree" /\ ~call.out.isNull) =>
        LET X == call.arg
            conditional == call.out.value
        IN  /\ conditional.support = tree.support
            /\ \A Y \in TreeItems(tree) :
                  Get(conditional.supports, Stringify(Y))
                      = SupportOf(tree, NodesBelow(tree, X, Y))
            /\ DOMAIN conditional.supports
                  \subseteq {Stringify(Y) : Y \in TreeItems(tree)}
            /\ TreeItems(conditional)
                  = {Y \in TreeItems(tree) :
                        /\ NodesBelow(tree, X, Y) # {}
                        /\ SupportOf(tree, NodesBelow(tree, X, Y)) >= tree.support}

\* A sequence in the reverse order.
Reverse(seq) == [i \in 1..Len(seq) |-> seq[Len(seq) + 1 - i]]

\* The prefix path of a node that is not a child of the root: the items of
\* its ancestors from the nearest one up to the child of the root, and its
\* own support.
PrefixPathOf(t, node) ==
    [support |-> t.nodes[node].support,
     path |-> Reverse(BranchOf(t, t.nodes[node].parent))]

\* C20: on a built tree getPrefixPaths(item) returns an empty array when the
\* item has no node, and otherwise one entry for each node of the item's
\* chain of node-links that is not a child of the root, in the order of the
\* chain: the items of the node's ancestors from the nearest one to the one
\* nearest the root, the root left out, and the node's own support.
C20_PrefixPaths ==
    (call.op = "getPrefixPaths" /\ call.wasInit) =>
        LET chain == LinkChain(tree, Get(tree.firstInserted, Stringify(call.arg)), {})
            below == SelectSeq(chain, LAMBDA n : tree.nodes[n].parent # Root)
        IN  /\ ~call.out.threw /\ ~call.out.isNull
            /\ NodesOf(tree, call.arg) = {} => call.out.value = <<>>
            /\ call.out.value = [i \in 1..Len(below) |-> PrefixPathOf(tree, below[i])]

\* getPrefixPaths returned two paths or more, one of them of a node with
\* ancestors of different items.
C20_Witness ==
    /\ call.op = "getPrefixPaths"
    /\ call.wasInit
    /\ Len(call.out.value) >= 2
    /\ \E i \in 1..Len(call.out.value) :
          /\ Len(call.out.value[i].path) >= 2
          /\ call.out.value[i].path[1] # call.out.value[i].path[2]

----------------------------------------------------------------------------
(* C21: the headers of a built tree *)

\* The headers hold the items that own a node, each once, in ascending order
\* of their support in the tree's table.
HeadersBySupport(t) ==
    /\ ItemSet(t.headers) = TreeItems(t)
    /\ \A i, j \in 1..Len(t.headers) : i # j => t.headers[i] # t.headers[j]
    /\ \A i, j \in 1..Len(t.headers) :
          i < j => Get(t.supports, Stringify(t.headers[i]))
                      <= Get(t.supports, Stringify(t.headers[j]))

\* The pairs of places in the headers whose items have the same support.
HeaderTies(t) ==
    {p \in (1..Len(t.headers)) \X (1..Len(t.headers)) :
        /\ p[1] < p[2]
        /\ Get(t.supports, Stringify(t.headers[p[1]]))
              = Get(t.supports, Stringify(t.headers[p[2]]))}

\* Tied headers stand as the comparator of the insertion sort puts tied
\* items: the greater stringified item first.
TiesAsInserted(t) ==
    \A p \in HeaderTies(t) :
        ItemCompare(t.supports, t.headers[p[1]], t.headers[p[2]]) < 0

\* Tied headers stand in the mirrored order: the lesser stringified item
\* first, as the headers mirror the descending supports of the insertion.
TiesMirrored(t) ==
    \A p \in HeaderTies(t) :
        ItemCompare(t.supports, t.headers[p[1]], t.headers[p[2]]) > 0

\* Tied headers stand in the order of Object.keys: ascending numbers.
TiesByNumber(t) ==
    \A p \in HeaderTies(t) : t.headers[p[1]] < t.headers[p[2]]

\* The trees a builder has built: the caller's, and the conditional tree the
\* last call returned.
BuiltTrees ==
    (IF tree.isInit THEN {tree} ELSE {})
    \cup (IF call.op = "getConditionalFPTree" /\ ~call.out.threw
                                              /\ ~call.out.isNull
          THEN {call.out.value} ELSE {})

\* C21 as stated: the headers of a built tree hold the distinct items that
\* own a node, each once, in ascending order of support, and two items of
\* equal support stand in the canonical order of the stringified items that
\* breaks the ties of the insertion sort, read in either direction.
C21_AsStated ==
    \A t \in BuiltTrees :
        HeadersBySupport(t) /\ (TiesAsInserted(t) \/ TiesMirrored(t))

\* C21 as amended: the headers of a built tree hold the distinct items that
\* own a node, each once, in ascending order of support, and two items of
\* equal support stand in the order of Object.keys, ascending numbers.
C21_Headers ==
    \A t \in BuiltTrees : HeadersBySupport(t) /\ TiesByNumber(t)

\* A built tree whose headers hold two items of equal support and two items
\* of different supports.
C21_Witness ==
    /\ tree.isInit
    /\ HeaderTies(tree) # {}
    /\ \E i, j \in 1..Len(tree.headers) :
          Get(tree.supports, Stringify(tree.headers[i]))
             < Get(tree.supports, Stringify(tree.headers[j]))

----------------------------------------------------------------------------
(* C22: the queries and the mining leave the tree as it is *)

Queries ==
    {"getPrefixPaths", "getPrefixPath", "isSinglePath", "getSinglePath",
     "getConditionalFPTree"}

\* Every reference held by a tree leads to a node of that tree: the root has
\* no parent, every other node is once among the children of its parent and
\* nowhere else, and the node-links and both tables of inserted nodes name
\* nodes of the tree below its root.
OwnsItsNodes(t) ==
    LET own == 2..Len(t.nodes)
        childrenOf(n) == t.nodes[n].children
    IN  /\ t.nodes[Root].parent = null
        /\ \A n \in own :
              /\ t.nodes[n].parent \in 1..Len(t.nodes)
              /\ Cardinality({i \in 1..Len(childrenOf(t.nodes[n].parent)) :
                                 childrenOf(t.nodes[n].parent)[i] = n}) = 1
              /\ t.nodes[n].nextSameItemNode \in own \cup {null}
        /\ \A n \in 1..Len(t.nodes) : \A i \in 1..Len(childrenOf(n)) :
              /\ childrenOf(n)[i] \in own
              /\ t.nodes[childrenOf(n)[i]].parent = n
        /\ \A key \in DOMAIN t.firstInserted : t.firstInserted[key] \in own
        /\ \A key \in DOMAIN t.lastInserted : t.lastInserted[key] \in own

====
